---- MODULE Spec2Model ----
(***************************************************************************)
(* Model of the traffic detection service: TrafficDetector.detect_objects  *)
(* and StreamCapture.capture_stream (src/app.py), and the FastAPI handlers *)
(* that call them (src/api.py).                                            *)
(*                                                                         *)
(* Numbers.  Python floats are modelled in fixed point: the integer v      *)
(* stands for the float v / Unit, and NaN is a value of its own, because   *)
(* every comparison with NaN is false in Python and the code compares raw  *)
(* scores with the threshold.  The image sizes and the raw coordinates the *)
(* model draws are such that w / 640.0 and the products with it are exact  *)
(* in binary floating point or far from an integer, so that int() of the   *)
(* float product is the floor of the exact quotient.                       *)
(*                                                                         *)
(* Tensors.  A numpy array is [ndim |-> n, data |-> d]: for n = 0, d is    *)
(* the number; for n > 0, d is the sequence of the data of its items       *)
(* (arrays of n - 1 dimensions), so that shape[0] = Len(d).                *)
(***************************************************************************)
EXTENDS Integers, Sequences, FiniteSets, TLC

VARIABLES
    model,          \* detector.model: "session" (an InferenceSession) or "none"
    traffic_stats,  \* detector.traffic_stats: class name -> count
    in_flight,      \* /detect handlers suspended at `await file.read()`
    resp,           \* what the handler that just returned answers, with the
                    \* call it made, until the response is delivered
    driver,         \* stream_capture.driver: "chrome" (a WebDriver) or "none"
    page_loaded,    \* hasattr(stream_capture, '_page_loaded')
    load_completed  \* history: some capture_stream call has got the page and
                    \* seen its body (the wait of lines 239-241 returned)

\* the StreamCapture object and its history
stream_capture == <<driver, page_loaded, load_completed>>

vars == <<model, traffic_stats, in_flight, resp, driver, page_loaded,
          load_completed>>

-----------------------------------------------------------------------------
(* Bounds and program constants *)

\* most detections (rows) in one raw model output
MaxDet == 2

\* most /detect handlers suspended at `await file.read()` at a time
MaxInFlight == 2

\* side of the square inference space: cv2.resize(frame, (640, 640)),
\* scale_x = w / 640.0, scale_y = h / 640.0
InferSize == 640

\* fixed point: v stands for the float v / Unit
Unit == 10

\* the float NaN (every ordered comparison with it is false)
NaN == 999999

IsNaN(v) == v = NaN

Max2(a, b) == IF a >= b THEN a ELSE b

Min2(a, b) == IF a <= b THEN a ELSE b

-----------------------------------------------------------------------------
(* numpy arrays *)

Arr(n, d) == [ndim |-> n, data |-> d]

\* arr[i], i counted from 1
Item(arr, i) == Arr(arr.ndim - 1, arr.data[i])

\* arr.ravel(): the numbers of the array, in order
RECURSIVE Ravel(_, _)
Ravel(n, d) ==
    IF n = 0 THEN <<d>>
    ELSE IF Len(d) = 0 THEN <<>>
    ELSE Ravel(n - 1, Head(d)) \o Ravel(n, Tail(d))

\* float(x) and int(x) of a numpy value succeed on a scalar and on an array
\* of exactly one element (deprecated for arrays, still accepted), and raise
\* TypeError on any other array
CanScalar(x) == Len(Ravel(x.ndim, x.data)) = 1

ScalarOf(x) == Ravel(x.ndim, x.data)[1]

\* int(v): truncation toward zero (ValueError on NaN is CanInt's business)
IntOf(v) == IF v >= 0 THEN v \div Unit ELSE -((-v) \div Unit)

CanInt(x) == CanScalar(x) /\ ~IsNaN(ScalarOf(x))

\* np.max over all the numbers of an array: NaN if any is NaN
RECURSIVE MaxSeq(_)
MaxSeq(s) ==
    IF Len(s) = 1 THEN s[1]
    ELSE LET m == MaxSeq(Tail(s))
         IN  IF IsNaN(s[1]) \/ IsNaN(m) THEN NaN ELSE Max2(s[1], m)

squeeze_batch(arr) ==
    IF arr.ndim >= 3 /\ Len(arr.data) = 1 THEN Item(arr, 1)
    ELSE IF arr.ndim = 2 /\ Len(arr.data) = 1 THEN Item(arr, 1)
    ELSE arr

-----------------------------------------------------------------------------
(* TrafficDetector.detect_objects *)

\* Python's None, as an array no tensor equals
None == Arr(-1, <<>>)

\* name_to_output.get(name): the output under that name (the last one, as a
\* dict comprehension keeps it), or None
GetOutput(names, outputs, name) ==
    LET at == {i \in 1..Len(names) : names[i] = name}
    IN  IF at = {} THEN None
        ELSE outputs[CHOOSE i \in at : \A j \in at : j <= i]

SqueezeIf(arr) == IF arr = None THEN None ELSE squeeze_batch(arr)

\* positional fallback: outputs[1] are the boxes, outputs[2] the labels and
\* outputs[0] the scores (0-based in the source, 1-based here)
Fallback(outputs, got) ==
    [boxes  |-> IF got.boxes = None THEN squeeze_batch(outputs[2]) ELSE got.boxes,
     labels |-> IF got.labels = None THEN squeeze_batch(outputs[3]) ELSE got.labels,
     scores |-> IF got.scores = None THEN squeeze_batch(outputs[1]) ELSE got.scores]

\* "解析輸出": the three per-detection arrays, or parsed = FALSE where the code
\* returns [] (a tensor is missing and there are fewer than 3 outputs)
ParseOutputs(names, outputs) ==
    LET got == [boxes  |-> SqueezeIf(GetOutput(names, outputs, "boxes")),
                labels |-> SqueezeIf(GetOutput(names, outputs, "labels")),
                scores |-> SqueezeIf(GetOutput(names, outputs, "scores"))]
    IN  IF got.boxes = None \/ got.labels = None \/ got.scores = None
        THEN IF Len(outputs) >= 3
             THEN [parsed |-> TRUE] @@ Fallback(outputs, got)
             ELSE [parsed |-> FALSE] @@ got
        ELSE [parsed |-> TRUE] @@ got

\* min(len(scores), len(labels), boxes.shape[0]); len() of a 0-d array raises
NumItems(scores, labels, boxes) ==
    Min2(Len(scores.data), Min2(Len(labels.data), Len(boxes.data)))

\* Use01 with the bound off by one: a batch whose largest label is 1 is
\* taken for the offset scheme
Use01Strict(labels) ==
    LET all == Ravel(labels.ndim, labels.data)
    IN  IF Len(all) = 0 THEN TRUE
        ELSE IF IsNaN(MaxSeq(all)) THEN TRUE
        ELSE IntOf(MaxSeq(all)) < 1

\* use_01 = int(np.max(labels)) <= 1, and True when that raises (np.max of an
\* empty array, int() of NaN)
Use01(labels) ==
    LET all == Ravel(labels.ndim, labels.data)
    IN  IF Len(all) = 0 THEN TRUE
        ELSE IF IsNaN(MaxSeq(all)) THEN TRUE
        ELSE IntOf(MaxSeq(all)) <= 1

\* a < b on floats
FloatLt(a, b) == ~IsNaN(a) /\ ~IsNaN(b) /\ a < b

\* if conf < confidence_threshold: continue
BelowThreshold(conf, confidence_threshold) == FloatLt(conf, confidence_threshold)

\* int(max(0, min(b * (dim / 640.0), dim - 1))): min(nan, k) is nan and
\* max(0, nan) is 0 in Python
ClipCoord(b, dim) ==
    IF IsNaN(b) THEN 0
    ELSE Max2(0, Min2((b * dim) \div (InferSize * Unit), dim - 1))

\* if x1 >= x2 or y1 >= y2: continue
Degenerate(bbox) == bbox[1] >= bbox[3] \/ bbox[2] >= bbox[4]

ClassName(cls, use_01) ==
    IF cls = 3 THEN "motorcycle"
    ELSE IF use_01
         THEN IF cls = 0 THEN "motorcycle"
              ELSE IF cls = 1 THEN "car"
              ELSE "class_" \o ToString(cls)
         ELSE IF cls = 1 THEN "motorcycle"
              ELSE IF cls = 2 THEN "car"
              ELSE "class_" \o ToString(cls)

\* bx1, by1, bx2, by2 = map(float, boxes[i]) succeeds on exactly four scalars
CanUnpackBox(b) ==
    /\ b.ndim >= 1
    /\ Len(b.data) = 4
    /\ \A j \in 1..4 : CanScalar(Item(b, j))

\* BBox with the x scale used for y as well
BBoxOneScale(b, w, h) ==
    <<ClipCoord(ScalarOf(Item(b, 1)), w), Min2(ClipCoord(ScalarOf(Item(b, 2)), w), h - 1),
      ClipCoord(ScalarOf(Item(b, 3)), w), Min2(ClipCoord(ScalarOf(Item(b, 4)), w), h - 1)>>

\* x1, y1, x2, y2 from the raw box, x scaled by w / 640 and y by h / 640
BBox(b, w, h) ==
    <<ClipCoord(ScalarOf(Item(b, 1)), w), ClipCoord(ScalarOf(Item(b, 2)), h),
      ClipCoord(ScalarOf(Item(b, 3)), w), ClipCoord(ScalarOf(Item(b, 4)), h)>>

Detection(cls, use_01, conf, bbox) ==
    [class_id |-> cls, class_name |-> ClassName(cls, use_01),
     confidence |-> conf, bbox |-> bbox]

\* the loop over range(num_items), from item i on, with the detections so far;
\* raised = TRUE when a conversion raises (the outer handler then returns [])
RECURSIVE Loop(_, _, _, _)
Loop(i, num_items, c, detections) ==
    IF i > num_items THEN [raised |-> FALSE, detections |-> detections]
    ELSE IF ~CanScalar(Item(c.scores, i)) THEN [raised |-> TRUE, detections |-> <<>>]
    ELSE LET conf == ScalarOf(Item(c.scores, i))
         IN  IF BelowThreshold(conf, c.confidence_threshold)
             THEN Loop(i + 1, num_items, c, detections)
             ELSE IF ~CanInt(Item(c.labels, i)) \/ ~CanUnpackBox(Item(c.boxes, i))
             THEN [raised |-> TRUE, detections |-> <<>>]
             ELSE LET cls  == IntOf(ScalarOf(Item(c.labels, i)))
                      bbox == BBox(Item(c.boxes, i), c.w, c.h)
                  IN  IF Degenerate(bbox)
                      THEN Loop(i + 1, num_items, c, detections)
                      ELSE Loop(i + 1, num_items, c,
                                Append(detections, Detection(cls, c.use_01, conf, bbox)))

\* detect_objects(image, confidence_threshold), the inference engine having
\* returned `outputs` under the output names `names`
detect_objects(mdl, image, confidence_threshold, names, outputs) ==
    IF mdl = "none" THEN <<>>
    ELSE LET p == ParseOutputs(names, outputs)
         IN  IF ~p.parsed THEN <<>>
             ELSE IF p.scores.ndim = 0 \/ p.labels.ndim = 0 \/ p.boxes.ndim = 0
             THEN <<>>
             ELSE LET c == [scores |-> p.scores, labels |-> p.labels,
                            boxes |-> p.boxes, w |-> image.w, h |-> image.h,
                            confidence_threshold |-> confidence_threshold,
                            use_01 |-> Use01(p.labels)]
                  IN  Loop(1, NumItems(p.scores, p.labels, p.boxes), c, <<>>).detections


\* draw_detections: the rectangles drawn on a copy of the image, each with
\* the colour its class name selects (BGR)
Colour(class_name) ==
    IF class_name = "car" THEN <<0, 0, 255>>
    ELSE IF class_name = "motorcycle" THEN <<0, 255, 0>>
    ELSE <<0, 255, 255>>

draw_detections(detections) ==
    [i \in 1..Len(detections) |->
        [rect |-> detections[i].bbox, colour |-> Colour(detections[i].class_name)]]

-----------------------------------------------------------------------------
(* What the inference engine may return: model.run(None, inputs) *)

\* raw boxes [x1, y1, x2, y2], in units of 1 / Unit
Box640   == <<640, 640, 1280, 1280>>     \* [64, 64, 128, 128], 640-space
BoxNorm  == <<1, 2, 3, 4>>               \* [0.1, 0.2, 0.3, 0.4], normalized
BoxOver  == <<-100, 6000, 7000, 6500>>   \* [-10, 600, 700, 650], clipped
BoxRight == <<7000, 100, 8000, 200>>     \* right of the image: degenerate

RawDet(label, box, score) == [label |-> label, box |-> box, score |-> score]

\* the raw detections a model output is made of: class id, box, score
RawDets ==
    { RawDet(0, Box640, 9), RawDet(1, BoxOver, 6), RawDet(2, Box640, 9),
      RawDet(3, Box640, 9), RawDet(5, Box640, 9), RawDet(1, BoxNorm, 9),
      RawDet(2, BoxRight, 9), RawDet(1, Box640, 2), RawDet(0, Box640, NaN) }

RowSeqs == UNION {[1..n -> RawDets] : n \in 0..MaxDet}

\* the layouts of the output collection
Layouts ==
    { "named3",       \* labels, boxes, scores under these names
      "named3_short", \* the same, the scores tensor one row short
      "pos3_lbs",     \* unnamed, in the order [labels, boxes, scores]
      "pos3_sbl",     \* unnamed, in the order [scores, boxes, labels]
      "named2_pc",    \* boxes and per-class scores [N, C] under their names
      "named2_sc",    \* boxes and scalar scores [N] under their names
      "pos5" }        \* five unnamed tensors

\* classes of a per-class score row
NumClasses == 3

LabelsT(rows) == Arr(1, [i \in 1..Len(rows) |-> rows[i].label * Unit])

BoxesT(rows) == Arr(2, [i \in 1..Len(rows) |-> rows[i].box])

ScoresT(rows) == Arr(1, [i \in 1..Len(rows) |-> rows[i].score])

PerClassT(rows) ==
    Arr(2, [i \in 1..Len(rows) |->
              [k \in 1..NumClasses |->
                  IF k = (rows[i].label % NumClasses) + 1 THEN rows[i].score ELSE 0]])

\* a leading batch dimension of size 1
Batch(batched, arr) == IF batched THEN Arr(arr.ndim + 1, <<arr.data>>) ELSE arr

Unnamed(n) == [i \in 1..n |-> "output" \o ToString(i - 1)]

ButLast(rows) == IF Len(rows) = 0 THEN rows ELSE SubSeq(rows, 1, Len(rows) - 1)

Tensors(layout, rows) ==
    CASE layout = "named3"       -> <<LabelsT(rows), BoxesT(rows), ScoresT(rows)>>
      [] layout = "named3_short" -> <<LabelsT(rows), BoxesT(rows), ScoresT(ButLast(rows))>>
      [] layout = "pos3_lbs"     -> <<LabelsT(rows), BoxesT(rows), ScoresT(rows)>>
      [] layout = "pos3_sbl"     -> <<ScoresT(rows), BoxesT(rows), LabelsT(rows)>>
      [] layout = "named2_pc"    -> <<BoxesT(rows), PerClassT(rows)>>
      [] layout = "named2_sc"    -> <<BoxesT(rows), ScoresT(rows)>>
      [] layout = "pos5"         -> <<ScoresT(rows), BoxesT(rows), LabelsT(rows),
                                      PerClassT(rows), Arr(1, <<Len(rows) * Unit>>)>>

OutputNames(layout) ==
    CASE layout \in {"named3", "named3_short"} -> <<"labels", "boxes", "scores">>
      [] layout \in {"named2_pc", "named2_sc"} -> <<"boxes", "scores">>
      [] layout \in {"pos3_lbs", "pos3_sbl"}   -> Unnamed(3)
      [] layout = "pos5"                       -> Unnamed(5)

Outputs(layout, batched, rows) ==
    [i \in 1..Len(Tensors(layout, rows)) |-> Batch(batched, Tensors(layout, rows)[i])]

-----------------------------------------------------------------------------
(* The service: src/api.py *)

\* decoded uploads: Image.open(...).convert("RGB")
Images == {[w |-> 640, h |-> 640], [w |-> 1280, h |-> 960]}

\* the confidence query parameter, in units of 1 / Unit: 0.0, 0.5, 0.8, 1.5
\* and nan (float("nan") parses as a float)
Thresholds == {0, 5, 8, 15, NaN}

NoResp == [endpoint |-> "none"]

Response(endpoint, status, body, call) ==
    [endpoint |-> endpoint, status |-> status, body |-> body, call |-> call]

NoCall == [ran |-> FALSE]

\* what the model was run on and what it answered: the locals of the
\* detect_objects frame the response was computed from
Call(image, t, layout, batched, rows) ==
    [ran |-> TRUE, image |-> image, confidence_threshold |-> t,
     layout |-> layout, batched |-> batched, rows |-> rows]

\* detector = TrafficDetector(): load_model leaves a session or None, and
\* traffic_stats is an empty defaultdict(int); stream_capture =
\* StreamCapture(): setup_driver leaves a WebDriver or None, and no
\* _page_loaded attribute
Init ==
    /\ model \in {"session", "none"}
    /\ traffic_stats = [c \in {} |-> 0]
    /\ in_flight = 0
    /\ resp = NoResp
    /\ driver \in {"chrome", "none"}
    /\ page_loaded = FALSE
    /\ load_completed = FALSE

\* POST /detect with no model: HTTPException(503)
DetectImageNoModel ==
    /\ resp = NoResp
    /\ model = "none"
    /\ resp' = Response("detect", 503, [detail |-> "model not loaded"], NoCall)
    /\ UNCHANGED <<model, traffic_stats, in_flight, stream_capture>>

\* POST /detect, up to its suspension at `await file.read()`
DetectImageCall ==
    /\ resp = NoResp
    /\ model # "none"
    /\ in_flight < MaxInFlight
    /\ in_flight' = in_flight + 1
    /\ UNCHANGED <<model, traffic_stats, resp, stream_capture>>

\* what detect_image returns for the upload `image`, the confidence
\* parameter t and the model's answer: detect_objects and draw_detections run
DetectImageResponse(mdl, image, t, layout, batched, rows) ==
    LET detections == detect_objects(mdl, image, t, OutputNames(layout),
                                     Outputs(layout, batched, rows))
    IN  Response("detect", 200,
                 [success |-> TRUE,
                  detections |-> detections,
                  detection_count |-> Len(detections),
                  annotated_image |-> draw_detections(detections),
                  confidence_threshold |-> t],
                 Call(image, t, layout, batched, rows))

\* the handler of one suspended request, from the read to its return: the
\* image is decoded, the model runs and answers.  (The confidence parameter
\* is fixed at the call; nothing reads it before this step, which is where
\* the model draws it.)
DetectImageRun ==
    /\ in_flight > 0
    /\ resp = NoResp
    /\ \E image \in Images, t \in Thresholds, layout \in Layouts,
          batched \in BOOLEAN, rows \in RowSeqs :
            resp' = DetectImageResponse(model, image, t, layout, batched, rows)
    /\ in_flight' = in_flight - 1
    /\ UNCHANGED <<model, traffic_stats, stream_capture>>

\* the upload is no image: Image.open raises, HTTPException(500)
DetectImageBadFile ==
    /\ in_flight > 0
    /\ resp = NoResp
    /\ resp' = Response("detect", 500, [detail |-> "detection failed"], NoCall)
    /\ in_flight' = in_flight - 1
    /\ UNCHANGED <<model, traffic_stats, stream_capture>>

\* GET /stats
GetStats ==
    /\ resp = NoResp
    /\ resp' = Response("stats", 200,
                 [traffic_stats |-> traffic_stats, model_type |-> "onnx"], NoCall)
    /\ UNCHANGED <<model, traffic_stats, in_flight, stream_capture>>

\* GET /health
HealthCheck ==
    /\ resp = NoResp
    /\ resp' = Response("health", 200,
                 [status |-> "healthy", model_loaded |-> model # "none",
                  model_type |-> "onnx"], NoCall)
    /\ UNCHANGED <<model, traffic_stats, in_flight, stream_capture>>

\* the response leaves the server and the handler's frame is gone
Deliver ==
    /\ resp # NoResp
    /\ resp' = NoResp
    /\ UNCHANGED <<model, traffic_stats, in_flight, stream_capture>>

Next ==
    \/ DetectImageNoModel
    \/ DetectImageCall
    \/ DetectImageRun
    \/ DetectImageBadFile
    \/ GetStats
    \/ HealthCheck
    \/ Deliver

Spec == Init /\ [][Next]_vars

-----------------------------------------------------------------------------
(* The stream capture: StreamCapture.capture_stream and GET /capture_stream *)

\* what the browser does in one call: whether driver.get and the wait for
\* the body return or raise, and whether the video element's screenshot, or
\* failing it the screenshot of the whole page, is taken
LoadOutcomes == {"completed", "failed"}
ShotOutcomes == {"video", "page", "raised"}

\* the condition of line 236
NeedsLoad(force_reload, loaded) == force_reload \/ ~loaded

\* _page_loaded after a load that was started: line 243 is reached only when
\* lines 238-242 have not raised
\* (variant: the flag is set before driver.get)
FlagAfterLoadEager(loaded, outcome) == TRUE

FlagAfterLoad(loaded, outcome) == loaded \/ outcome = "completed"

\* StreamCapture.capture_stream(force_reload) on a capture object with the
\* given driver and flag, the browser behaving as `outcome` and `shot` say:
\* what it returns ("none" for None, else which screenshot), whether it
\* loaded the page, and the flag it leaves
capture_stream(drv, loaded, force_reload, outcome, shot) ==
    IF drv = "none"
    THEN [image |-> "none", load |-> "skipped", page_loaded |-> loaded]
    ELSE LET needs == NeedsLoad(force_reload, loaded)
             flag  == IF needs THEN FlagAfterLoad(loaded, outcome) ELSE loaded
         IN  IF needs /\ outcome = "failed"
             THEN [image |-> "none", load |-> "failed", page_loaded |-> flag]
             ELSE [image |-> IF shot = "raised" THEN "none" ELSE shot,
                   load |-> IF needs THEN "completed" ELSE "skipped",
                   page_loaded |-> flag]

\* the capture_stream call a /capture_stream response was computed from: its
\* argument, the object's state when it was called, and what it did
CaptureCall(force_reload, loaded_before, completed_before, c) ==
    [ran |-> FALSE, captured |-> TRUE, force_reload |-> force_reload,
     page_loaded_before |-> loaded_before,
     load_completed_before |-> completed_before,
     load |-> c.load, image |-> c.image]

\* the detect_objects call of a /capture_stream handler, after the capture
DetectCall(capture, t, layout, batched, rows) ==
    [capture EXCEPT !.ran = TRUE] @@
    [confidence_threshold |-> t, layout |-> layout, batched |-> batched,
     rows |-> rows]

RECURSIVE CountClass(_, _)
CountClass(detections, name) ==
    IF detections = <<>> THEN 0
    ELSE (IF Head(detections).class_name = name THEN 1 ELSE 0)
         + CountClass(Tail(detections), name)

\* sum(d["confidence"] for d in detections): NaN once a term is NaN
RECURSIVE SumConfidence(_)
SumConfidence(detections) ==
    IF detections = <<>> THEN 0
    ELSE LET rest == SumConfidence(Tail(detections))
         IN  IF IsNaN(Head(detections).confidence) \/ IsNaN(rest) THEN NaN
             ELSE Head(detections).confidence + rest

\* avg_confidence, as the quotient sum / len left unevaluated; 0.0 for no
\* detections
AvgConfidence(detections) ==
    IF detections = <<>> THEN [sum |-> 0, len |-> 1]
    ELSE [sum |-> SumConfidence(detections), len |-> Len(detections)]

\* what /capture_stream returns once the capture has returned an image: the
\* image is resized to 640 x 640, detect_objects and draw_detections run
\* (the timestamp field is left out)
CaptureStreamResponse(mdl, capture, t, layout, batched, rows) ==
    LET stream_image == [w |-> InferSize, h |-> InferSize]
        detections == detect_objects(mdl, stream_image, t, OutputNames(layout),
                                     Outputs(layout, batched, rows))
        car_count == CountClass(detections, "car")
        motorcycle_count == CountClass(detections, "motorcycle")
    IN  Response("capture_stream", 200,
                 [success |-> TRUE,
                  car_count |-> car_count,
                  motorcycle_count |-> motorcycle_count,
                  total_count |-> car_count + motorcycle_count,
                  confidence_threshold |-> t,
                  avg_confidence |-> AvgConfidence(detections),
                  annotated_image |-> draw_detections(detections)],
                 DetectCall(capture, t, layout, batched, rows))

\* GET /capture_stream with no model: HTTPException(503), before any capture
CaptureStreamNoModel ==
    /\ resp = NoResp
    /\ model = "none"
    /\ resp' = Response("capture_stream", 503, [detail |-> "model not loaded"],
                        NoCall)
    /\ UNCHANGED <<model, traffic_stats, in_flight, stream_capture>>

\* GET /capture_stream when the capture returns None: success is False.  The
\* handler has no await, so it runs from its call to its return in one step.
CaptureStreamFailed ==
    /\ resp = NoResp
    /\ model # "none"
    /\ \E force_reload \in BOOLEAN, outcome \in LoadOutcomes,
          shot \in ShotOutcomes :
         LET c == capture_stream(driver, page_loaded, force_reload, outcome, shot)
         IN  /\ c.image = "none"
             /\ page_loaded' = c.page_loaded
             /\ load_completed' = (load_completed \/ c.load = "completed")
             /\ resp' = Response("capture_stream", 200,
                                 [success |-> FALSE, error |-> "capture failed"],
                                 CaptureCall(force_reload, page_loaded,
                                             load_completed, c))
    /\ UNCHANGED <<model, traffic_stats, in_flight, driver>>

\* GET /capture_stream when the capture returns an image
CaptureStreamDetect ==
    /\ resp = NoResp
    /\ model # "none"
    /\ \E force_reload \in BOOLEAN, outcome \in LoadOutcomes,
          shot \in ShotOutcomes :
         LET c == capture_stream(driver, page_loaded, force_reload, outcome, shot)
         IN  /\ c.image # "none"
             /\ page_loaded' = c.page_loaded
             /\ load_completed' = (load_completed \/ c.load = "completed")
             /\ \E t \in Thresholds, layout \in Layouts, batched \in BOOLEAN,
                   rows \in RowSeqs :
                    resp' = CaptureStreamResponse(model,
                                CaptureCall(force_reload, page_loaded,
                                            load_completed, c),
                                t, layout, batched, rows)
    /\ UNCHANGED <<model, traffic_stats, in_flight, driver>>

NextStream ==
    \/ CaptureStreamNoModel
    \/ CaptureStreamFailed
    \/ CaptureStreamDetect
    \/ GetStats
    \/ HealthCheck
    \/ Deliver

SpecStream == Init /\ [][NextStream]_vars

-----------------------------------------------------------------------------
(* Properties *)

\* a /detect handler has run detect_objects and returned
Completed == resp.endpoint = "detect" /\ resp.call.ran

Dets == resp.body.detections

\* the arrays detect_objects worked on after "解析輸出", for the call in resp
Parsed ==
    ParseOutputs(OutputNames(resp.call.layout),
                 Outputs(resp.call.layout, resp.call.batched, resp.call.rows))

\* detect_objects on the same image and raw output with the threshold t
DetsAt(t) ==
    detect_objects(model, resp.call.image, t, OutputNames(resp.call.layout),
                   Outputs(resp.call.layout, resp.call.batched, resp.call.rows))

Range(f) == {f[i] : i \in DOMAIN f}

\* a >= b on floats
FloatGe(a, b) == ~IsNaN(a) /\ ~IsNaN(b) /\ a >= b

InRange01(t) == ~IsNaN(t) /\ 0 <= t /\ t <= Unit

WellFormedBBox(bbox, image) ==
    /\ bbox[1] < bbox[3] /\ bbox[2] < bbox[4]
    /\ 0 <= bbox[1] /\ bbox[3] <= image.w - 1
    /\ 0 <= bbox[2] /\ bbox[4] <= image.h - 1

\* C1: every detection detect_objects returns has confidence >= threshold and
\* a bbox with x1 < x2, y1 < y2, 0 <= x1, x2 <= w - 1, 0 <= y1, y2 <= h - 1
\* (stated for the thresholds the specification admits, those in [0, 1]).
C1_DetectionsWellFormed ==
    (Completed /\ InRange01(resp.call.confidence_threshold)) =>
        \A d \in Range(Dets) :
            /\ FloatGe(d.confidence, resp.call.confidence_threshold)
            /\ WellFormedBBox(d.bbox, resp.call.image)

\* the bbox half of C1 on its own: every returned bbox is non-degenerate and
\* inside the image
BBoxesWellFormed ==
    Completed => \A d \in Range(Dets) : WellFormedBBox(d.bbox, resp.call.image)

\* C2: when the engine returns a tensor collection that is neither the
\* 2-tensor nor the 3-tensor layout, the call ends in a reported error with
\* no detections, never in a success.
C2_UnrecognizedSurfaced ==
    (Completed /\ Len(OutputNames(resp.call.layout)) \notin {2, 3}) =>
        resp.status # 200

\* C3: for a raw 3-tensor output in the order [labels, boxes, scores] the
\* arrays detect_objects works on are the original tensors, index for index.
C3_ThreeTensorIdentity ==
    (Completed /\ resp.call.layout \in {"named3", "pos3_lbs"}) =>
        /\ Parsed.labels = LabelsT(resp.call.rows)
        /\ Parsed.boxes = BoxesT(resp.call.rows)
        /\ Parsed.scores = ScoresT(resp.call.rows)

RowMax(r) == CHOOSE v \in Range(r) : \A u \in Range(r) : u <= v

\* np.argmax: the first index of the maximum, counted from 0
RowArgMax(r) ==
    (CHOOSE k \in 1..Len(r) : r[k] = RowMax(r) /\ \A j \in 1..(k - 1) : r[j] # RowMax(r)) - 1

\* C4: for a raw 2-tensor output [boxes, scores] with per-class scores
\* [N, C], a row whose maximum passes the threshold is emitted as a detection
\* whose class id is the arg-max of the row and whose confidence is its
\* maximum.
C4_TwoTensorArgMax ==
    (Completed /\ resp.call.layout = "named2_pc") =>
        \A i \in 1..Len(resp.call.rows) :
            LET r == PerClassT(resp.call.rows).data[i]
            IN  ( /\ resp.call.rows[i].box = Box640
                  /\ \A k \in 1..Len(r) : ~IsNaN(r[k])
                  /\ FloatGe(RowMax(r), resp.call.confidence_threshold) )
                => \E d \in Range(Dets) :
                      d.class_id = RowArgMax(r) /\ d.confidence = RowMax(r)

\* the class ids of the labels array, when it holds integers only
LabelIds == {v \div Unit : v \in Range(Ravel(Parsed.labels.ndim, Parsed.labels.data))}

IntegerLabels ==
    /\ Parsed.parsed
    /\ \A v \in Range(Ravel(Parsed.labels.ndim, Parsed.labels.data)) :
          ~IsNaN(v) /\ v % Unit = 0

MaxLabel == CHOOSE m \in LabelIds : \A l \in LabelIds : l <= m

SchemeName(cls, max_label) ==
    IF cls = 3 THEN "motorcycle"
    ELSE IF max_label <= 1 /\ cls = 0 THEN "motorcycle"
    ELSE IF max_label <= 1 /\ cls = 1 THEN "car"
    ELSE IF max_label > 1 /\ cls = 1 THEN "motorcycle"
    ELSE IF max_label > 1 /\ cls = 2 THEN "car"
    ELSE "class_" \o ToString(cls)

\* C5: one label scheme per call, chosen from the maximum over all raw labels
\* of the batch (0-based when max <= 1, offset otherwise): label 3 is always
\* "motorcycle"; with max <= 1, 0 is "motorcycle" and 1 is "car"; with
\* max > 1, 1 is "motorcycle" and 2 is "car"; any other label is
\* "class_<id>", and the batch goes on.
C5_LabelScheme ==
    (Completed /\ IntegerLabels) =>
        /\ \A d \in Range(Dets) : d.class_name = SchemeName(d.class_id, MaxLabel)
        /\ (resp.call.layout = "named3" /\ resp.call.batched) =>
              \A r \in Range(resp.call.rows) :
                  (r.box = Box640 /\ FloatGe(r.score, resp.call.confidence_threshold))
                  => \E d \in Range(Dets) :
                        /\ d.class_id = r.label
                        /\ d.class_name = SchemeName(r.label, MaxLabel)

\* C5 witness: a batch with max(labels) = 2 in which label 1 came out as
\* "motorcycle" and label 2 as "car"
C5_Witness ==
    /\ Completed /\ IntegerLabels /\ Len(Dets) = 2
    /\ \E d \in Range(Dets) : d.class_id = 1 /\ d.class_name = "motorcycle"
    /\ \E d \in Range(Dets) : d.class_id = 2 /\ d.class_name = "car"

OneRow(box, score) ==
    /\ Len(resp.call.rows) = 1
    /\ resp.call.rows[1].box = box
    /\ resp.call.rows[1].score = score

\* C6: a raw box in normalized 0..1 coordinates is multiplied by the width
\* and height of the image: [0.1, 0.2, 0.3, 0.4] with a passing score on a
\* 640x640 image gives the detection box [64, 128, 192, 256].
C6_NormalizedBox ==
    ( /\ Completed
      /\ resp.call.layout = "named3" /\ resp.call.batched
      /\ OneRow(BoxNorm, 9)
      /\ resp.call.image = [w |-> 640, h |-> 640]
      /\ resp.call.confidence_threshold = 5 )
    => (Len(Dets) = 1 /\ Dets[1].bbox = <<64, 128, 192, 256>>)

\* floor(b * dim / 640) held to [0, dim - 1], b in units of 1 / Unit
Scaled(b, dim) ==
    LET q == (b * dim) \div (640 * Unit)
    IN  IF q < 0 THEN 0 ELSE IF q > dim - 1 THEN dim - 1 ELSE q

\* C7: a 640-space raw box is scaled by width / 640 in x and by height / 640
\* in y, independently, and each coordinate is clipped to [0, dimension - 1]:
\* every returned bbox is that image of one of the raw boxes, and on a
\* 1280x960 image the raw box [64, 64, 128, 128] with score 0.9 and threshold
\* 0.5 comes out as [128, 96, 256, 192].
C7_ScaleAndClip ==
    Completed =>
        /\ \A d \in Range(Dets) :
              \E r \in Range(resp.call.rows) :
                  d.bbox = <<Scaled(r.box[1], resp.call.image.w),
                             Scaled(r.box[2], resp.call.image.h),
                             Scaled(r.box[3], resp.call.image.w),
                             Scaled(r.box[4], resp.call.image.h)>>
        /\ ( /\ resp.call.layout = "named3" /\ resp.call.batched
             /\ OneRow(Box640, 9)
             /\ resp.call.image = [w |-> 1280, h |-> 960]
             /\ resp.call.confidence_threshold = 5 )
           => (Len(Dets) = 1 /\ Dets[1].bbox = <<128, 96, 256, 192>>)

\* C7 witness: the scenario has run and returned its one detection
C7_Witness ==
    /\ Completed
    /\ resp.call.layout = "named3" /\ resp.call.batched
    /\ OneRow(Box640, 9)
    /\ resp.call.image = [w |-> 1280, h |-> 960]
    /\ resp.call.confidence_threshold = 5
    /\ Len(Dets) = 1

\* C8: for thresholds t1 < t2, the detections produced with t2 are among
\* those produced with t1 on the same raw output and image (the call's own
\* threshold being one of the two).
C8_ThresholdMonotone ==
    Completed =>
        \A t \in Thresholds :
            /\ FloatLt(t, resp.call.confidence_threshold)
                  => Range(Dets) \subseteq Range(DetsAt(t))
            /\ FloatLt(resp.call.confidence_threshold, t)
                  => Range(DetsAt(t)) \subseteq Range(Dets)

\* C9: a confidence threshold outside [0, 1] is rejected before any
\* inference: the model is not run and no detection list is returned.
C9_ThresholdRejected ==
    (resp.endpoint = "detect" /\ resp.call.ran)
        => InRange01(resp.call.confidence_threshold)

Stat(stats, c) == IF c \in DOMAIN stats THEN stats[c] ELSE 0

Count(dets, c) == Cardinality({i \in 1..Len(dets) : dets[i].class_name = c})

\* C10: each completed detection batch adds 1 to traffic_stats[c] for every
\* detection of class name c, and no other step changes a count.
C10_StatsCountBatches ==
    [][ IF resp = NoResp /\ resp'.endpoint = "detect" /\ resp'.call.ran
        THEN \A d \in Range(resp'.body.detections) :
                Stat(traffic_stats', d.class_name)
                    = Stat(traffic_stats, d.class_name)
                        + Count(resp'.body.detections, d.class_name)
        ELSE traffic_stats' = traffic_stats ]_vars

\* a /capture_stream handler has called stream_capture.capture_stream
Captured == resp.endpoint = "capture_stream" /\ resp.status = 200

\* C11: in every capture_stream call with a driver, the page is loaded
\* exactly when force_reload is true or no earlier call has completed a load;
\* the page-loaded flag is set exactly when some call has completed a load
\* (so it is set only by a completed load and never cleared), a call whose
\* load fails returns None and leaves the flag as it was, unset if it was
\* unset, and the call after such a failure with the flag unset loads again;
\* with no driver every call returns None and loads nothing.
C11_PageLoadedOnce ==
    /\ page_loaded = load_completed
    /\ Captured =>
         LET c == resp.call
         IN  /\ c.page_loaded_before = c.load_completed_before
             /\ driver # "none" =>
                  /\ c.load # "skipped"
                       <=> (c.force_reload \/ ~c.load_completed_before)
                  /\ c.load = "failed" =>
                       /\ c.image = "none"
                       /\ page_loaded = c.page_loaded_before
                  /\ c.load = "completed" => page_loaded
                  /\ c.load = "skipped" => page_loaded
             /\ driver = "none" =>
                  /\ c.load = "skipped"
                  /\ c.image = "none"
                  /\ ~page_loaded

\* a first load has failed: the call returned None, the flag is unset
C11_Witness ==
    /\ Captured
    /\ driver # "none"
    /\ resp.call.load = "failed"
    /\ ~resp.call.force_reload
    /\ resp.call.image = "none"
    /\ ~page_loaded

====
